---- MODULE Spec2Model ----
(***************************************************************************)
(* Model of app.py of storyteller-ai: the Streamlit page script (session   *)
(* state "last_result", the Generate and Clear buttons) and the body of    *)
(* generate_video (storyboard parsing, the per-scene loop, the ffmpeg      *)
(* assembly, the TemporaryDirectory scope and the except clauses).         *)
(*                                                                         *)
(* Texts are sequences of one-character strings.  A storyboard object      *)
(* {"scenes":[s1,...,sn]} is written  { {c1} ... {cn} }  where the         *)
(* character ci stands for the content of scene i:                         *)
(*   "p", "q"  two different non-empty image prompts                       *)
(*   "e"       image_prompt present but empty                              *)
(*   "m"       image_prompt missing                                        *)
(* Prose is made of "a", "{" and "}".                                      *)
(***************************************************************************)
EXTENDS Integers, Sequences, FiniteSets, TLC

\* ---------------------------------------------------------------- bounds
MaxScenes == 2
MaxProse == 1

\* ------------------------------------------------------------- constants
None == "None"

SceneChars == {"p", "q", "e", "m"}
ProseChars == {"a", "{", "}"}

\* Sequences over S of length at most n.
SeqsUpTo(S, n) == UNION {[1..k -> S] : k \in 0..n}

\* ------------------------------------------------- python string helpers
Min2(a, b) == IF a < b THEN a ELSE b
Max2(a, b) == IF a > b THEN a ELSE b

\* str.find(ch): 0-based index of the first occurrence, -1 when absent.
Find(s, ch) ==
    IF \E k \in 1..Len(s) : s[k] = ch
    THEN (CHOOSE k \in 1..Len(s) : s[k] = ch /\ \A j \in 1..(k-1) : s[j] # ch) - 1
    ELSE -1

\* str.rfind(ch): 0-based index of the last occurrence, -1 when absent.
RFind(s, ch) ==
    IF \E k \in 1..Len(s) : s[k] = ch
    THEN (CHOOSE k \in 1..Len(s) : s[k] = ch /\ \A j \in (k+1)..Len(s) : s[j] # ch) - 1
    ELSE -1

\* Python slice index normalisation and s[a:b].
PyIndex(s, k) == IF k < 0 THEN Max2(0, Len(s) + k) ELSE Min2(k, Len(s))
PySlice(s, a, b) == SubSeq(s, PyIndex(s, a) + 1, PyIndex(s, b))

\* --------------------------------------------------------- json decoding
\* json.loads on the abstract syntax: the text must be exactly
\* "{" followed by groups "{" c "}" followed by "}".
IsObject(s) ==
    /\ Len(s) >= 2
    /\ s[1] = "{"
    /\ s[Len(s)] = "}"
    /\ (Len(s) - 2) % 3 = 0
    /\ \A g \in 1..((Len(s) - 2) \div 3) :
          /\ s[3*g - 1] = "{"
          /\ s[3*g] \in SceneChars
          /\ s[3*g + 1] = "}"

\* The scene dict a scene character stands for; scene.get("image_prompt")
\* is None for a missing key.
SceneOf(c) ==
    [image_prompt |-> CASE c = "p" -> "P" [] c = "q" -> "Q" [] c = "e" -> "" [] OTHER -> None,
     voiceover_text |-> "v" \o c]

\* storyboard.get("scenes", []) of a decoded object.
ScenesOf(s) == [g \in 1..((Len(s) - 2) \div 3) |-> SceneOf(s[3*g])]

\* The text of an object with the given scene characters.
RECURSIVE Groups(_)
Groups(cs) == IF cs = <<>> THEN <<>> ELSE <<"{", Head(cs), "}">> \o Groups(Tail(cs))
ObjectText(cs) == <<"{">> \o Groups(cs) \o <<"}">>

\* Responses the text generation service may return.
Prose == SeqsUpTo(ProseChars, MaxProse)
Bodies == {<<>>} \cup {ObjectText(cs) : cs \in SeqsUpTo(SceneChars, MaxScenes)}
Responses == {pre \o body \o post : pre \in Prose, body \in Bodies, post \in Prose}

\* ------------------------------------------------------------ error text
\* Messages of the exceptions raised inside generate_video.
MsgNoJSON == "Could not find JSON in model response"
MsgDecode == "Expecting value"
MsgNoScenes == "No scenes found in the storyboard JSON."
MsgMissingPrompt(k) == "Scene " \o ToString(k) \o " missing 'image_prompt'"
MsgFetch == "image fetch failed"
MsgApi == "API call failed"
\* Messages of the explicit error returns.
ErrClip(k) == "FFmpeg failed while creating scene " \o ToString(k) \o " (see server logs)."
ErrAssembly == "Final FFmpeg assembly failed (see server logs)."
ErrNotCreated == "Final video not created."

\* ------------------------------------------------------------ file names
PngName(k) == "scene_" \o ToString(k) \o ".png"
Mp3Name(k) == "scene_" \o ToString(k) \o ".mp3"
Mp4Name(k) == "scene_" \o ToString(k) \o ".mp4"
FileList == "filelist.txt"
FinalName == "final_video.mp4"

\* --------------------------------------------------------- scratch files
\* A scratch directory is [exists, files]; files is a set of <<name, data>>
\* with data a sequence of strings.
NoDir == [exists |-> FALSE, files |-> {}]
Exists(dir, name) == \E f \in dir.files : f[1] = name
ReadFile(dir, name) == (CHOOSE f \in dir.files : f[1] = name)[2]
RemoveFile(dir, name) == [dir EXCEPT !.files = {f \in @ : f[1] # name}]
WriteFile(dir, name, data) ==
    [dir EXCEPT !.files = {f \in @ : f[1] # name} \cup {<<name, data>>}]

\* Variant: the directory is removed only when the block is left normally.
TemporaryDirectoryExitLeak(exc, dir) == IF exc THEN dir ELSE NoDir

\* tempfile.TemporaryDirectory().__exit__: the directory and everything in
\* it is removed, whether the block is left normally or by an exception.
TemporaryDirectoryExit(exc, dir) == NoDir

\* ------------------------------------------------- pieces of the pipeline
\* Variant: the end index without the "+ 1".
JsonEndIndexNoPlus(text) == RFind(text, "}")

\* json_end_index of the parser.
JsonEndIndex(text) == RFind(text, "}") + 1

\* The absence check of the parser.
NoJsonFound(start, end) == start = -1 \/ end = -1

\* Variant: "image_prompt is None", which lets the empty string through.
PromptMissingNoneOnly(scene) == scene.image_prompt = None

\* "not image_prompt".
PromptMissing(scene) == scene.image_prompt = None \/ scene.image_prompt = ""

\* Bytes the image service delivers for a prompt, and the audio for a text.
ImageData(prompt) == "png:" \o prompt
AudioData(text) == "mp3:" \o text

\* "proc.returncode != 0" after the per-clip encoder.
ClipEncoderFailed(rc) == rc # 0

\* Variant: the fallback runs whatever the fast concat returned.
AfterFastConcatAlways(rc) == "reencode"

\* Where the run goes after the fast concat: the fallback only on failure.
AfterFastConcat(rc) == IF rc # 0 THEN "reencode" ELSE "final"

\* Variant: the fallback's outcome is read from the fast concat's result.
ReencodeFailedStale(fast_rc, reencode_rc) == fast_rc # 0

\* "reproc.returncode != 0" after the fallback.
ReencodeFailed(fast_rc, reencode_rc) == reencode_rc # 0

\* Variant: the manifest lists the clips last first.
ManifestReversed(clips) ==
    [k \in 1..Len(clips) |-> "file '" \o clips[Len(clips) - k + 1] \o "'"]

\* The lines written to filelist.txt.
Manifest(clips) == [k \in 1..Len(clips) |-> "file '" \o clips[k] \o "'"]

\* The dict returned by generate_video.
Result(video, images, err) == [video_bytes |-> video, images |-> images, error |-> err]
ClipFailed(k, images) == Result(None, images, ErrClip(k))
\* Variant: the failed assembly is returned without an error message.
AssemblyFailedSwallowed(images) == Result(None, images, None)
AssemblyFailed(images) == Result(None, images, ErrAssembly)
NotCreated(images) == Result(None, images, ErrNotCreated)
Success(video, images) == Result(video, images, None)

\* The except clauses: an exception is [type, msg].
GenerationErrors == {"RequestException", "JSONDecodeError", "IndexError", "ValueError"}
ExceptHandler(e, images) ==
    IF e.type = "CalledProcessError"
    THEN Result(None, <<>>, "FFmpeg error occurred (see server logs).")
    ELSE IF e.type \in GenerationErrors
    THEN Result(None, <<>>, "Generation error: " \o e.msg)
    ELSE Result(None, <<>>, "Unexpected error: " \o e.msg)

\* Whether the page script renders the "Clear Results" button.
ClearButtonRendered(held) == held # <<>> /\ held[1].error = None

\* ------------------------------------------------------------------ state
VARIABLES
    last_result,             \* st.session_state["last_result"]: <<>> is None, <<r>> holds r
    clear_button,            \* the last script run rendered "Clear Results"
    pc,                      \* position of the script
    script_text_response,    \* locals of generate_video
    json_only_string,
    scenes,
    i,
    images_for_download,
    intermediate_video_files,
    returncode,              \* result.returncode of the fast concat
    temp_dir,                \* the scratch directory of the run
    calls,                   \* external requests and encoder invocations of the run, in order
    result                   \* <<r>> once generate_video has returned r

locals == <<script_text_response, json_only_string, scenes, i, images_for_download,
            intermediate_video_files, returncode, calls>>
page == <<last_result, clear_button>>
vars == <<last_result, clear_button, pc, script_text_response, json_only_string, scenes, i,
          images_for_download, intermediate_video_files, returncode, temp_dir, calls, result>>

\* A log entry: the operation, its scene (0 when it belongs to no scene), its
\* outcome rc (0 success; non-zero exit code or raised exception otherwise)
\* and whether it left its output file behind.
Call(op, k, rc, out) == [op |-> op, scene |-> k, rc |-> rc, out |-> out]

FreshLocals ==
    /\ script_text_response = <<>>
    /\ json_only_string = <<>>
    /\ scenes = <<>>
    /\ i = 0
    /\ images_for_download = <<>>
    /\ intermediate_video_files = <<>>
    /\ returncode = 0
    /\ calls = <<>>

Init ==
    /\ last_result = <<>>
    /\ clear_button = FALSE
    /\ pc = "idle"
    /\ FreshLocals
    /\ temp_dir = NoDir
    /\ result = <<>>

\* An exception leaves the with block and reaches the except clauses.
Raise(type, msg) ==
    /\ result' = <<ExceptHandler([type |-> type, msg |-> msg], images_for_download)>>
    /\ temp_dir' = TemporaryDirectoryExit(TRUE, temp_dir)
    /\ pc' = "returned"

\* A return statement inside the with block.
Return(r) ==
    /\ result' = <<r>>
    /\ temp_dir' = TemporaryDirectoryExit(FALSE, temp_dir)
    /\ pc' = "returned"

\* ------------------------------------------------------------ page script
\* A script run in which no button was clicked.
Rerender ==
    /\ pc = "idle"
    /\ clear_button' = ClearButtonRendered(last_result)
    /\ UNCHANGED <<last_result, pc, locals, temp_dir, result>>

\* "Generate Video" clicked: the two guards, then the start of generate_video
\* up to the creation of the scratch directory.
ClickGenerate ==
    /\ pc = "idle"
    /\ \E has_key \in BOOLEAN, video_topic \in {"", "topic"} :
         IF ~has_key \/ video_topic = ""
         THEN /\ clear_button' = ClearButtonRendered(last_result)
              /\ UNCHANGED <<last_result, pc, locals, temp_dir, result>>
         ELSE /\ pc' = "invoke"
              /\ temp_dir' = [exists |-> TRUE, files |-> {}]
              /\ UNCHANGED <<page, locals, result>>

\* "Clear Results" clicked: drop the held result and rerun the script.
ClickClear ==
    /\ pc = "idle"
    /\ clear_button
    /\ last_result' = <<>>
    /\ clear_button' = ClearButtonRendered(<<>>)
    /\ UNCHANGED <<pc, locals, temp_dir, result>>

\* generate_video has returned: store the result and render it.
StoreResult ==
    /\ pc = "returned"
    /\ last_result' = result
    /\ clear_button' = ClearButtonRendered(result)
    /\ pc' = "idle"
    /\ script_text_response' = <<>>
    /\ json_only_string' = <<>>
    /\ scenes' = <<>>
    /\ i' = 0
    /\ images_for_download' = <<>>
    /\ intermediate_video_files' = <<>>
    /\ returncode' = 0
    /\ calls' = <<>>
    /\ result' = <<>>
    /\ UNCHANGED temp_dir

\* ---------------------------------------------------------- generate_video
InvokeModel ==
    /\ pc = "invoke"
    /\ \/ \E text \in Responses :
            /\ script_text_response' = text
            /\ calls' = Append(calls, Call("chat", 0, 0, FALSE))
            /\ pc' = "parse"
            /\ UNCHANGED <<temp_dir, result>>
       \/ /\ Raise("Exception", MsgApi)
          /\ calls' = Append(calls, Call("chat", 0, 1, FALSE))
          /\ UNCHANGED script_text_response
    /\ UNCHANGED <<page, json_only_string, scenes, i, images_for_download,
                   intermediate_video_files, returncode>>

ParseStoryboard ==
    /\ pc = "parse"
    /\ LET json_start_index == Find(script_text_response, "{")
           json_end_index == JsonEndIndex(script_text_response)
           sliced == PySlice(script_text_response, json_start_index, json_end_index)
       IN IF NoJsonFound(json_start_index, json_end_index)
          THEN /\ Raise("JSONDecodeError", MsgNoJSON)
               /\ UNCHANGED <<json_only_string, scenes>>
          ELSE /\ json_only_string' = sliced
               /\ IF ~IsObject(sliced)
                  THEN /\ Raise("JSONDecodeError", MsgDecode)
                       /\ UNCHANGED scenes
                  ELSE IF ScenesOf(sliced) = <<>>
                  THEN /\ Raise("ValueError", MsgNoScenes)
                       /\ UNCHANGED scenes
                  ELSE /\ scenes' = ScenesOf(sliced)
                       /\ pc' = "scene"
                       /\ UNCHANGED <<temp_dir, result>>
    /\ UNCHANGED <<page, script_text_response, i, images_for_download,
                   intermediate_video_files, returncode, calls>>

\* Loop head and the image_prompt check of scene i+1.
SceneStart ==
    /\ pc = "scene"
    /\ IF i = Len(scenes)
       THEN /\ pc' = "concat"
            /\ UNCHANGED <<temp_dir, result>>
       ELSE IF PromptMissing(scenes[i + 1])
       THEN Raise("ValueError", MsgMissingPrompt(i + 1))
       ELSE /\ pc' = "image"
            /\ UNCHANGED <<temp_dir, result>>
    /\ UNCHANGED <<page, locals>>

RequestImage ==
    /\ pc = "image"
    /\ \/ /\ calls' = Append(calls, Call("image", i + 1, 0, FALSE))
          /\ pc' = "fetch"
          /\ UNCHANGED <<temp_dir, result>>
       \/ /\ calls' = Append(calls, Call("image", i + 1, 1, FALSE))
          /\ Raise("Exception", MsgApi)
    /\ UNCHANGED <<page, script_text_response, json_only_string, scenes, i,
                   images_for_download, intermediate_video_files, returncode>>

FetchImage ==
    /\ pc = "fetch"
    /\ \/ LET image_data == ImageData(scenes[i + 1].image_prompt)
          IN /\ calls' = Append(calls, Call("fetch", i + 1, 0, TRUE))
             /\ temp_dir' = WriteFile(temp_dir, PngName(i + 1), <<image_data>>)
             /\ images_for_download' =
                    Append(images_for_download, [name |-> PngName(i + 1), bytes |-> image_data])
             /\ pc' = "speech"
             /\ UNCHANGED result
       \/ /\ calls' = Append(calls, Call("fetch", i + 1, 1, FALSE))
          /\ Raise("RequestException", MsgFetch)
          /\ UNCHANGED images_for_download
    /\ UNCHANGED <<page, script_text_response, json_only_string, scenes, i,
                   intermediate_video_files, returncode>>

RequestSpeech ==
    /\ pc = "speech"
    /\ \/ /\ calls' = Append(calls, Call("speech", i + 1, 0, TRUE))
          /\ temp_dir' = WriteFile(temp_dir, Mp3Name(i + 1),
                                   <<AudioData(scenes[i + 1].voiceover_text)>>)
          /\ pc' = "clip"
          /\ UNCHANGED result
       \/ /\ calls' = Append(calls, Call("speech", i + 1, 1, FALSE))
          /\ Raise("Exception", MsgApi)
    /\ UNCHANGED <<page, script_text_response, json_only_string, scenes, i,
                   images_for_download, intermediate_video_files, returncode>>

\* The per-clip encoder invocation of scene i+1.
EncodeClip ==
    /\ pc = "clip"
    /\ \E rc \in {0, 1} :
         /\ calls' = Append(calls, Call("clip", i + 1, rc, rc = 0))
         /\ IF ClipEncoderFailed(rc)
            THEN /\ Return(ClipFailed(i + 1, images_for_download))
                 /\ UNCHANGED <<i, intermediate_video_files>>
            ELSE /\ temp_dir' = WriteFile(temp_dir, Mp4Name(i + 1), <<"clip">>)
                 /\ intermediate_video_files' = Append(intermediate_video_files, Mp4Name(i + 1))
                 /\ i' = i + 1
                 /\ pc' = "scene"
                 /\ UNCHANGED result
    /\ UNCHANGED <<page, script_text_response, json_only_string, scenes,
                   images_for_download, returncode>>

\* Manifest and the fast concat.  A failing run may leave a partial file.
ConcatCopy ==
    /\ pc = "concat"
    /\ \E rc \in {0, 1}, wrote \in BOOLEAN :
         LET listed == WriteFile(temp_dir, FileList, Manifest(intermediate_video_files))
         IN /\ calls' = Append(calls, Call("concat_copy", 0, rc, wrote))
            /\ returncode' = rc
            /\ temp_dir' = IF wrote THEN WriteFile(listed, FinalName, <<"copy">>) ELSE listed
            /\ pc' = AfterFastConcat(rc)
    /\ UNCHANGED <<page, script_text_response, json_only_string, scenes, i,
                   images_for_download, intermediate_video_files, result>>

\* The re-encode fallback; with -y it replaces whatever the fast concat left.
ConcatReencode ==
    /\ pc = "reencode"
    /\ \E rc \in {0, 1}, wrote \in BOOLEAN :
         /\ calls' = Append(calls, Call("concat_reencode", 0, rc, wrote))
         /\ IF ReencodeFailed(returncode, rc)
            THEN Return(AssemblyFailed(images_for_download))
            ELSE /\ temp_dir' = IF wrote THEN WriteFile(temp_dir, FinalName, <<"reencode">>)
                                          ELSE RemoveFile(temp_dir, FinalName)
                 /\ pc' = "final"
                 /\ UNCHANGED result
    /\ UNCHANGED <<page, script_text_response, json_only_string, scenes, i,
                   images_for_download, intermediate_video_files, returncode>>

\* The existence check and the read of the final file.  A zero exit code
\* does not imply the file is there: the code tests for it.
ReadFinal ==
    /\ pc = "final"
    /\ IF ~Exists(temp_dir, FinalName)
       THEN Return(NotCreated(images_for_download))
       ELSE Return(Success(ReadFile(temp_dir, FinalName)[1], images_for_download))
    /\ UNCHANGED <<page, locals>>

Next ==
    \/ Rerender
    \/ ClickGenerate
    \/ ClickClear
    \/ StoreResult
    \/ InvokeModel
    \/ ParseStoryboard
    \/ SceneStart
    \/ RequestImage
    \/ FetchImage
    \/ RequestSpeech
    \/ EncodeClip
    \/ ConcatCopy
    \/ ConcatReencode
    \/ ReadFinal

\* The page over any number of runs.
Spec == Init /\ [][Next]_vars

\* One call of generate_video, from the click that starts it to its return.
NextRun ==
    \/ ClickGenerate
    \/ InvokeModel
    \/ ParseStoryboard
    \/ SceneStart
    \/ RequestImage
    \/ FetchImage
    \/ RequestSpeech
    \/ EncodeClip
    \/ ConcatCopy
    \/ ConcatReencode
    \/ ReadFinal

RunSpec == Init /\ [][NextRun]_vars

TypeOK ==
    /\ Len(last_result) <= 1
    /\ clear_button \in BOOLEAN
    /\ i \in 0..Len(scenes)
    /\ Len(result) <= 1

\* ------------------------------------------------------------- properties
Returned == pc = "returned"
Res == result[1]
CallIdx(op) == {k \in 1..Len(calls) : calls[k].op = op}
Count(op) == Cardinality(CallIdx(op))
ConcatCalls == CallIdx("concat_copy") \cup CallIdx("concat_reencode")
NoChar(text, ch) == \A k \in 1..Len(text) : text[k] # ch
GenErr(msg) == "Generation error: " \o msg
EmptyPrompt(scene) == scene.image_prompt \in {None, ""}
\* The run got a response and the parser has run on it.
Parsed == Len(calls) >= 1 /\ calls[1].rc = 0 /\ pc # "parse"
BothConcatFailed ==
    \E a \in CallIdx("concat_copy"), b \in CallIdx("concat_reencode") :
        calls[a].rc # 0 /\ calls[b].rc # 0
FastFailedReencodeOk ==
    \E a \in CallIdx("concat_copy"), b \in CallIdx("concat_reencode") :
        calls[a].rc # 0 /\ calls[b].rc = 0
ReencodeWrote == \E b \in CallIdx("concat_reencode") : calls[b].out
\* Places (first, last) of the well-formed storyboard objects inside a text.
ObjectSpans(text) ==
    {sp \in (1..Len(text)) \X (1..Len(text)) :
        sp[1] < sp[2] /\ IsObject(SubSeq(text, sp[1], sp[2]))}
TheSpan(text) == CHOOSE sp \in ObjectSpans(text) : TRUE
TheObject(text) == SubSeq(text, TheSpan(text)[1], TheSpan(text)[2])
\* The parser's slice is the object, and the run numbers its scenes in order.
ExtractsObject(text) ==
    /\ json_only_string = TheObject(text)
    /\ scenes = ScenesOf(TheObject(text))
    /\ \A k \in 1..Len(images_for_download) :
          images_for_download[k] =
              [name |-> PngName(k), bytes |-> ImageData(ScenesOf(TheObject(text))[k].image_prompt)]
    /\ \A k \in 1..Len(intermediate_video_files) : intermediate_video_files[k] = Mp4Name(k)

\* C1: when a run aborts with an error while processing scene i+1, the
\* returned images still hold the image of every scene 1..i processed before.
C1_PartialImagesKept ==
    (Returned /\ Res.error # None) =>
        \A k \in 1..i :
            k <= Len(Res.images) /\ Res.images[k] = images_for_download[k]

\* C2: every returned result has video bytes exactly when it has no error; a failed request or encoder call other than the fast concat
\* gives an error; both concats failing gives the terminal assembly error.
C2_VideoIffNoError ==
    Returned =>
        /\ (Res.video_bytes # None) <=> (Res.error = None)
        /\ (\E k \in 1..Len(calls) : calls[k].rc # 0 /\ calls[k].op # "concat_copy")
              => Res.error # None
        /\ BothConcatFailed => (Res.error = ErrAssembly /\ Res.video_bytes = None)

C2_Witness == Returned /\ BothConcatFailed /\ Res.error = ErrAssembly

\* C3: no request or encoder invocation is repeated; the per-clip encoder runs
\* at most once per scene and each concat at most once, the fallback only
\* after a failed fast concat; a run that reached assembly has run the
\* per-clip encoder exactly once for each of the N scenes and the concat
\* once, or twice exactly when the fast concat failed.
C3_InvocationCounts ==
    /\ \A a, b \in 1..Len(calls) :
          (calls[a].op = calls[b].op /\ calls[a].scene = calls[b].scene) => a = b
    /\ \A j \in CallIdx("clip") : calls[j].scene \in 1..Len(scenes)
    /\ Count("clip") <= Len(scenes)
    /\ Cardinality(ConcatCalls) <= 2
    /\ Count("concat_reencode") = 1 =>
          \E a \in CallIdx("concat_copy") : calls[a].rc # 0
    /\ (Returned /\ Count("concat_copy") = 1) =>
          /\ Count("clip") = Len(scenes)
          /\ \A k \in 1..Len(scenes) : \E j \in CallIdx("clip") : calls[j].scene = k
          /\ Cardinality(ConcatCalls) =
                IF \E a \in CallIdx("concat_copy") : calls[a].rc # 0 THEN 2 ELSE 1

C3_Witness == Returned /\ Count("concat_reencode") = 1 /\ Len(scenes) >= 2

\* C4 as stated: a failed fast concat followed by a fallback that exits zero
\* always ends in success with the re-encoded bytes and all N images.
C4_FallbackAlwaysSucceeds ==
    (Returned /\ FastFailedReencodeOk) =>
        /\ Res.error = None
        /\ Res.video_bytes = "reencode"
        /\ Len(Res.images) = Len(scenes)

\* C4 amended: a failed fast concat followed by a fallback that exits zero
\* ends in success with the re-encoded bytes and the images of all N scenes
\* when the fallback left the final file, and in "Final video not created."
\* without video bytes when the file is absent.
C4_FallbackSuccess ==
    (Returned /\ FastFailedReencodeOk) =>
        IF ReencodeWrote
        THEN /\ Res.error = None
             /\ Res.video_bytes = "reencode"
             /\ Len(Res.images) = Len(scenes)
             /\ \A k \in 1..Len(scenes) : Res.images[k].name = PngName(k)
        ELSE /\ Res.error = ErrNotCreated
             /\ Res.video_bytes = None

C4_Witness ==
    /\ Returned
    /\ FastFailedReencodeOk
    /\ ReencodeWrote
    /\ \E a \in CallIdx("concat_copy") : calls[a].out
    /\ Res.error = None
    /\ Len(scenes) >= 2

\* C5: once generate_video has returned, by a return or by an exception, the
\* scratch directory and every file in it are gone.
C5_ScratchRemoved ==
    pc \in {"returned", "idle"} => (~temp_dir.exists /\ temp_dir.files = {})

C5_Witness ==
    /\ Returned
    /\ \E k \in 1..Len(calls) : calls[k].out
    /\ Res.error = GenErr(MsgFetch)

\* C6: if scene k has a missing or empty image_prompt, no request and no
\* encoder invocation is ever made for scene k or a later scene, no concat
\* runs, the run returns an error without video, and when every scene before
\* k went through the error names scene k.
C6_MissingPromptAborts ==
    \A k \in 1..Len(scenes) :
        EmptyPrompt(scenes[k]) =>
            /\ \A j \in 1..Len(calls) : calls[j].scene < k
            /\ ConcatCalls = {}
            /\ i < k
            /\ pc \notin {"concat", "reencode", "final"}
            /\ Returned => (Res.error # None /\ Res.video_bytes = None)
            /\ (Returned /\ i = k - 1 /\ \A j \in 1..Len(calls) : calls[j].rc = 0)
                  => Res.error = GenErr(MsgMissingPrompt(k))

C6_Witness ==
    /\ Returned
    /\ i >= 1
    /\ i < Len(scenes)
    /\ scenes[i + 1].image_prompt = ""
    /\ Res.error = GenErr(MsgMissingPrompt(i + 1))

\* C7: a response without "{" or without "}" makes the run fail with the
\* "Could not find JSON in model response" error of the absence check.
C7_NoJsonFound ==
    (Returned /\ Parsed
        /\ (NoChar(script_text_response, "{") \/ NoChar(script_text_response, "}")))
    => Res.error = GenErr(MsgNoJSON)

\* C8 as stated: whenever the response contains exactly one well-formed
\* storyboard object, whatever surrounds it, the parser's slice is that
\* object and the scenes are numbered in its order.
C8_ExtractsAnySingleObject ==
    (Parsed /\ Cardinality(ObjectSpans(script_text_response)) = 1)
    => ExtractsObject(script_text_response)

\* C8 amended: whenever the response contains exactly one well-formed
\* storyboard object, with no "{" in the text before it and no "}" in the
\* text after it, the parser's slice is that object and the scenes are
\* numbered in its order.
C8_ExtractsObject ==
    (/\ Parsed
     /\ Cardinality(ObjectSpans(script_text_response)) = 1
     /\ \A j \in 1..(TheSpan(script_text_response)[1] - 1) : script_text_response[j] # "{"
     /\ \A j \in (TheSpan(script_text_response)[2] + 1)..Len(script_text_response) :
           script_text_response[j] # "}")
    => ExtractsObject(script_text_response)

C8_Witness ==
    /\ pc = "clip"
    /\ i = 1
    /\ Cardinality(ObjectSpans(script_text_response)) = 1
    /\ TheSpan(script_text_response)[1] > 1
    /\ TheSpan(script_text_response)[2] < Len(script_text_response)
    /\ json_only_string = TheObject(script_text_response)
    /\ scenes[1].image_prompt # scenes[2].image_prompt
    /\ images_for_download[2].bytes = ImageData(scenes[2].image_prompt)

\* C9: while the page is at rest a held result changes only by the clear
\* action, and whenever a result is held, success or error, the clear button
\* is there to be clicked.
C9_HeldResultClearable ==
    [][/\ (pc = "idle" /\ last_result # <<>>) => clear_button
       /\ (pc = "idle" /\ pc' = "idle" /\ last_result' # last_result)
             => (clear_button /\ last_result' = <<>>)]_vars

\* C10: the per-clip encoder of scene k starts only with the image and the
\* audio of scene k in the scratch directory; nothing is requested for scene
\* k+1 before the clip of scene k was encoded successfully; a concat starts
\* only after the clips of all N scenes exist; the manifest lists exactly
\* those N clips once each in scene order.
C10_StrictOrder ==
    /\ pc = "clip" =>
          (Exists(temp_dir, PngName(i + 1)) /\ Exists(temp_dir, Mp3Name(i + 1)))
    /\ \A j \in CallIdx("clip") :
          /\ \E a \in 1..(j - 1) : calls[a] = Call("fetch", calls[j].scene, 0, TRUE)
          /\ \E a \in 1..(j - 1) : calls[a] = Call("speech", calls[j].scene, 0, TRUE)
    /\ \A j \in 1..Len(calls) :
          calls[j].scene > 1 =>
              \E a \in 1..(j - 1) : calls[a] = Call("clip", calls[j].scene - 1, 0, TRUE)
    /\ \A j \in ConcatCalls : \A k \in 1..Len(scenes) :
          \E a \in 1..(j - 1) : calls[a] = Call("clip", k, 0, TRUE)
    /\ pc \in {"concat", "reencode", "final"} =>
          \A k \in 1..Len(scenes) : Exists(temp_dir, Mp4Name(k))
    /\ pc \in {"reencode", "final"} =>
          /\ Exists(temp_dir, FileList)
          /\ ReadFile(temp_dir, FileList) =
                [k \in 1..Len(scenes) |-> "file '" \o Mp4Name(k) \o "'"]

C10_Witness ==
    /\ pc = "final"
    /\ Len(scenes) >= 2
    /\ Exists(temp_dir, FileList)
    /\ Len(ReadFile(temp_dir, FileList)) = Len(scenes)

====
